---- MODULE Spec2Model ----
(***************************************************************************)
(* Model of the OuluWebCams controller (src/js.js, class OuluWebCams).     *)
(*                                                                         *)
(* One controller object, the DOM it renders into, the interval timers it  *)
(* starts and the requests it has in flight (camera list fetches, image    *)
(* loads).  Every event handler, timer callback and continuation after an  *)
(* await is one action.  Times are hours since an epoch; timer periods are *)
(* milliseconds as in the source.                                          *)
(***************************************************************************)
EXTENDS Integers, Sequences, FiniteSets

VARIABLES
    initPhase,          \* position of init(): "muni", "cams", "ready", "failed"
    municipalityData,   \* this.municipalityData
    allCameras,         \* this.allCameras
    cameras,            \* this.cameras
    currentImages,      \* this.currentImages, indexed from 0
    currentCycleIndex,  \* this.currentCycleIndex
    lockedCameras,      \* this.lockedCameras
    lastFullUpdate,     \* this.lastFullUpdate (-1 is null)
    isMobile,           \* this.isMobile
    config,             \* this.config
    cyclingInterval,    \* this.cyclingInterval: handle of the cycling timer, 0 is null
    timers,             \* cycling timers alive in the browser: handle -> period, 0 is cleared
    periodic,           \* which of the three periodic timers have been started
    grid,               \* children of #cameraGrid, indexed from 0
    loads,              \* loadCameraImages / updateCameraImages calls awaiting an image
    fetching,           \* loadCameras calls of the 30-minute timer awaiting the response
    refreshRequested,   \* slots whose image the last refreshCurrentImages re-requested
    selectors,          \* options of #selectedMunicipality and #selectedStation
    intervalSelect,     \* #cyclingInterval: its value and its disabled options
    hiddenCounts,       \* options of #cameraCount hidden by the mobile restriction
    status,             \* class of #statusText: "loading", "success", "error"
    refreshCalls,       \* calls of refreshCurrentImages so far
    heldLocks,          \* history: slots locked while they held an image, still locked
    now                 \* Date.now(), in hours

vars == <<initPhase, municipalityData, allCameras, cameras, currentImages,
          currentCycleIndex, lockedCameras, lastFullUpdate, isMobile, config,
          cyclingInterval, timers, periodic, grid, loads, fetching,
          refreshRequested, selectors, intervalSelect, hiddenCounts, status,
          refreshCalls, heldLocks, now>>

----------------------------------------------------------------------------
(* Bounds of the model *)

\* image-loading calls that may be awaiting an image at the same time
MaxLoads == 2
\* the clock stops advancing here
MaxNow == 6
\* features of the municipality data drawn for the geolocation check
MaxFeatures == 2
\* presets of the station drawn for the filter check
MaxPresets == 3
\* loadCameras calls of the 30-minute timer that may be awaiting at the same time
MaxFetches == 1
\* calls of refreshCurrentImages that are counted
MaxRefreshCalls == 2

(* Program constants *)

\* 4 * 60 * 60 * 1000 ms, in hours
FourHours == 4
\* slots a grid can have (largest standard grid size)
MaxSlots == 16
\* the mobile restriction's largest camera count
MobileMax == 8
\* minCycleTimes[cameraCount] || 10000
DefaultMinCycleTime == 10000

Slots == 0..(MaxSlots - 1)
standardGridSizes == <<1, 2, 4, 6, 8, 12, 16>>
CountOptions == {1, 2, 4, 6, 8, 12, 16}
IntervalOptions == {2000, 3000, 5000, 8000, 10000, 15000, 20000}
TimerIds == {1, 2}

NoCamera == [presetId |-> ""]
NoLoad == [kind |-> "none"]
NoCoord == -1

Min(a, b) == IF a <= b THEN a ELSE b

----------------------------------------------------------------------------
(* getMunicipalityForCamera: turf.booleanPointInPolygon is the membership  *)
(* of the point [lon, lat] in the set of points the geometry covers;       *)
(* turf.point throws on a missing coordinate and turf.polygon /            *)
(* turf.multiPolygon throw on malformed coordinates.                       *)

RECURSIVE LookupFrom(_, _, _)
LookupFrom(features, point, k) ==
    IF k > Len(features) THEN "Unknown"
    ELSE LET feature == features[k] IN
         IF feature.gtype = "Polygon"
         THEN IF ~feature.wellFormed THEN "Unknown"
              ELSE IF point \in feature.covers
                   THEN (IF feature.nimi # "" THEN feature.nimi ELSE "Unknown")
                   ELSE LookupFrom(features, point, k + 1)
         ELSE IF feature.gtype = "MultiPolygon"
         THEN IF ~feature.wellFormed THEN "Unknown"
              ELSE IF point \in feature.covers
                   THEN (IF feature.nimi # "" THEN feature.nimi ELSE "Unknown")
                   ELSE LookupFrom(features, point, k + 1)
         ELSE LookupFrom(features, point, k + 1)

\* a lookup that builds the point as [lat, lon]
getMunicipalityForCameraLatFirst(md, lat, lon) ==
    IF ~md.loaded THEN "Unknown"
    ELSE IF lat = NoCoord \/ lon = NoCoord THEN "Unknown"
    ELSE LookupFrom(md.features, <<lat, lon>>, 1)

getMunicipalityForCamera(md, lat, lon) ==
    IF ~md.loaded THEN "Unknown"
    ELSE IF lat = NoCoord \/ lon = NoCoord THEN "Unknown"
    ELSE LookupFrom(md.features, <<lon, lat>>, 1)

----------------------------------------------------------------------------
(* processCameras, lines 126-146: one record per preset of every station,  *)
(* in response order.  presentationName, imageUrl and age are display      *)
(* strings no operation reads back and are left out.                       *)

ProcessPreset(camera, preset, municipality) ==
    [presetId     |-> preset.presetId,
     measuredTime |-> preset.measuredTime,
     stationName  |-> camera.name,
     cameraId     |-> camera.cameraId,
     lat          |-> camera.lat,
     lon          |-> camera.lon,
     municipality |-> municipality]

ProcessStation(md, camera) ==
    LET municipality == getMunicipalityForCamera(md, camera.lat, camera.lon)
    IN  [p \in 1..Len(camera.presets) |->
            ProcessPreset(camera, camera.presets[p], municipality)]

RECURSIVE ProcessFrom(_, _, _)
ProcessFrom(md, rawCameras, k) ==
    IF k > Len(rawCameras) THEN <<>>
    ELSE ProcessStation(md, rawCameras[k]) \o ProcessFrom(md, rawCameras, k + 1)

processedCameras(md, rawCameras) == ProcessFrom(md, rawCameras, 1)

----------------------------------------------------------------------------
(* filterCameras: copy, drop the old cameras if enabled, sort the copy     *)
(* newest first (Array.prototype.sort is stable).  The value is the        *)
(* returned list together with the argument list as the call leaves it.    *)

RECURSIVE InsertNewestFirst(_, _)
InsertNewestFirst(sorted, c) ==
    IF sorted = <<>> THEN <<c>>
    ELSE IF Head(sorted).measuredTime >= c.measuredTime
         THEN <<Head(sorted)>> \o InsertNewestFirst(Tail(sorted), c)
         ELSE <<c>> \o sorted

RECURSIVE SortNewestFirst(_)
SortNewestFirst(s) ==
    IF s = <<>> THEN <<>>
    ELSE InsertNewestFirst(SortNewestFirst(SubSeq(s, 1, Len(s) - 1)), s[Len(s)])

IsFresh(camera, t) == camera.measuredTime > t - FourHours

\* a filter that keeps a camera measured exactly four hours ago
filterCamerasKeepingFourHours(cams, dropOldCameras, t) ==
    LET kept == IF dropOldCameras
                THEN SelectSeq(cams, LAMBDA c : c.measuredTime >= t - FourHours)
                ELSE cams
    IN  [result |-> SortNewestFirst(kept), input |-> cams]

filterCameras(cams, dropOldCameras, t) ==
    LET copy == cams
        kept == IF dropOldCameras
                THEN SelectSeq(copy, LAMBDA c : IsFresh(c, t))
                ELSE copy
    IN  [result |-> SortNewestFirst(kept), input |-> cams]

----------------------------------------------------------------------------
(* getFilteredCameras *)

\* a filter that applies each selection whatever the cycling mode is
getFilteredCamerasInAnyMode(cams, cfg) ==
    LET byMunicipality ==
            IF cfg.selectedMunicipality # ""
            THEN SelectSeq(cams, LAMBDA c : c.municipality = cfg.selectedMunicipality)
            ELSE cams
    IN  IF cfg.selectedStation # ""
        THEN SelectSeq(byMunicipality, LAMBDA c : c.stationName = cfg.selectedStation)
        ELSE byMunicipality

getFilteredCameras(cams, cfg) ==
    CASE cfg.cyclingMode = "municipality" ->
            IF cfg.selectedMunicipality # ""
            THEN SelectSeq(cams, LAMBDA c : c.municipality = cfg.selectedMunicipality)
            ELSE cams
      [] cfg.cyclingMode = "station" ->
            IF cfg.selectedStation # ""
            THEN SelectSeq(cams, LAMBDA c : c.stationName = cfg.selectedStation)
            ELSE cams
      [] OTHER -> cams

RECURSIVE GridSizeFrom(_, _)
GridSizeFrom(cameraCount, k) ==
    IF k > Len(standardGridSizes) THEN 16
    ELSE IF cameraCount <= standardGridSizes[k] THEN standardGridSizes[k]
    ELSE GridSizeFrom(cameraCount, k + 1)

\* a grid size strictly above the number of cameras
getOptimalGridSizeAbove(cameraCount) == GridSizeFrom(cameraCount + 1, 1)

getOptimalGridSize(cameraCount) == GridSizeFrom(cameraCount, 1)

minCycleTimes(cameraCount) ==
    CASE cameraCount = 1 -> 2000
      [] cameraCount = 2 -> 3000
      [] cameraCount = 4 -> 5000
      [] cameraCount = 6 -> 8000
      [] cameraCount = 8 -> 10000
      [] cameraCount = 12 -> 15000
      [] cameraCount = 16 -> 20000
      [] OTHER -> DefaultMinCycleTime

----------------------------------------------------------------------------
(* The grid: showNoCamerasMessage leaves the message and no cell; a cell   *)
(* is "placeholder", or a camera container showing "loading", "image" or   *)
(* "error" (showCameraError replaces the container's content, so it has no *)
(* image element and no lock button any more).                             *)

EmptyCells == [i \in {} |-> ""]
NoGrid == [message |-> FALSE, cells |-> EmptyCells]

IsContainer(g, i) == i \in DOMAIN g.cells /\ g.cells[i] # "placeholder"
HasImageElement(g, i) == i \in DOMAIN g.cells /\ g.cells[i] \in {"loading", "image"}
ShowLoading(g, i) == [g EXCEPT !.cells[i] = "loading"]

(* An image load in flight: the call that awaits it (kind) and its caller  *)
(* (by: "render", "cycle" or "update"), the slot and camera of the         *)
(* loadSingleCamera call, what loadCameraImages captured                   *)
(* before its loop (avail, count), and the container element the call      *)
(* holds: cont = 0 is the element in the document, cont > 0 one that       *)
(* renderCameras removed (equal cont for the same render); broken when     *)
(* another call has replaced that element's content by the error message.  *)

ActiveLoads(lds) == {k \in DOMAIN lds : lds[k] # NoLoad}
FreeLoads(lds) == {k \in DOMAIN lds : lds[k] = NoLoad}
FirstFree(lds) == CHOOSE k \in FreeLoads(lds) : \A j \in FreeLoads(lds) : k <= j

Detach(lds) ==
    LET aged == [k \in DOMAIN lds |->
                    IF lds[k] = NoLoad THEN NoLoad
                    ELSE [lds[k] EXCEPT !.cont = @ + 1]]
        ages == {aged[k].cont : k \in ActiveLoads(aged)}
    IN  [k \in DOMAIN lds |->
            IF aged[k] = NoLoad THEN NoLoad
            ELSE [aged[k] EXCEPT !.cont = Cardinality({a \in ages : a <= @})]]

CameraAt(avail, cci, i) == avail[((cci + i) % Len(avail)) + 1]

\* loadCameraImages, the loop from slot i to the next await (-1: the loop ends)
RECURSIVE ImagesNext(_, _, _, _, _)
ImagesNext(i, count, locked, images, g) ==
    IF i >= count THEN -1
    ELSE IF i \in locked /\ images[i] # NoCamera
         THEN ImagesNext(i + 1, count, locked, images, g)
    ELSE IF ~HasImageElement(g, i)
         THEN ImagesNext(i + 1, count, locked, images, g)
    ELSE i

FindCamera(cams, presetId) ==
    LET hits == {j \in 1..Len(cams) : cams[j].presetId = presetId}
    IN  IF hits = {} THEN NoCamera
        ELSE cams[CHOOSE j \in hits : \A h \in hits : j <= h]

\* updateCameraImages, the loop from slot i to the next await (-1: the loop ends)
RECURSIVE UpdateNext(_, _, _, _, _, _)
UpdateNext(i, cameraCount, cams, locked, images, g) ==
    IF i >= cameraCount THEN -1
    ELSE IF ~IsContainer(g, i)
         THEN UpdateNext(i + 1, cameraCount, cams, locked, images, g)
    ELSE IF images[i] = NoCamera \/ i \in locked
         THEN UpdateNext(i + 1, cameraCount, cams, locked, images, g)
    ELSE IF FindCamera(cams, images[i].presetId) = NoCamera
         THEN UpdateNext(i + 1, cameraCount, cams, locked, images, g)
    ELSE IF ~HasImageElement(g, i)
         THEN UpdateNext(i + 1, cameraCount, cams, locked, images, g)
    ELSE i

\* loadSingleCamera up to its await, for the call in load slot k
Await(lds, k, kind, by, i, camera, avail, count) ==
    [lds EXCEPT ![k] = [kind |-> kind, by |-> by, i |-> i, camera |-> camera,
                        avail |-> avail, count |-> count, cont |-> 0,
                        broken |-> FALSE]]

\* loadCameraImages up to its first await; ok is FALSE when the model has no room
loadCameraImages(by, lds, g, cams, cfg, cci, locked, images) ==
    LET availableCameras == getFilteredCameras(cams, cfg)
        actualCameraCount == Min(cfg.cameraCount, Len(availableCameras))
        i == ImagesNext(0, actualCameraCount, locked, images, g)
    IN  IF i = -1 THEN [ok |-> TRUE, loads |-> lds, grid |-> g]
        ELSE IF FreeLoads(lds) = {} THEN [ok |-> FALSE, loads |-> lds, grid |-> g]
        ELSE [ok |-> TRUE,
              loads |-> Await(lds, FirstFree(lds), "images", by, i,
                              CameraAt(availableCameras, cci, i),
                              availableCameras, actualCameraCount),
              grid |-> ShowLoading(g, i)]

renderCameras(lds, cams, cfg, cci, locked, images) ==
    LET availableCameras == getFilteredCameras(cams, cfg)
        actualCameraCount == Min(cfg.cameraCount, Len(availableCameras))
        optimalGridSize == getOptimalGridSize(actualCameraCount)
        fresh == [message |-> FALSE,
                  cells |-> [i \in 0..(optimalGridSize - 1) |->
                                IF i < actualCameraCount THEN "loading"
                                ELSE "placeholder"]]
    IN  IF Len(availableCameras) = 0
        THEN [ok |-> TRUE, loads |-> Detach(lds),
              grid |-> [message |-> TRUE, cells |-> EmptyCells]]
        ELSE loadCameraImages("render", Detach(lds), fresh, cams, cfg, cci, locked,
                              images)

----------------------------------------------------------------------------
(* Helpers of the handlers *)

\* populateSelectors: the option values after the "All ..." option
populateSelectors(cams) ==
    [municipalities |-> {cams[j].municipality : j \in 1..Len(cams)},
     stations       |-> {cams[j].stationName : j \in 1..Len(cams)}]

updateCycleTimeOptions(cfg, select) ==
    LET minTime == minCycleTimes(cfg.cameraCount)
        disabled == {v \in IntervalOptions : v < minTime}
    IN  IF select.value < minTime
        THEN [config |-> [cfg EXCEPT !.cyclingInterval = minTime],
              select |-> [value |-> minTime, disabled |-> disabled]]
        ELSE [config |-> cfg,
              select |-> [value |-> select.value, disabled |-> disabled]]

\* stopCycling on the timer table
stopCycling(handle, tms) ==
    IF handle # 0 THEN [handle |-> 0, timers |-> [tms EXCEPT ![handle] = 0]]
    ELSE [handle |-> 0, timers |-> tms]

\* setInterval: a handle no live timer has
NewTimer(tms) == CHOOSE id \in TimerIds : tms[id] = 0 /\ \A j \in TimerIds : tms[j] = 0 => id <= j

\* setInterval without the stopCycling before it
startCyclingWithoutStop(handle, tms, period) ==
    LET id == NewTimer(tms)
    IN  [handle |-> id, timers |-> [tms EXCEPT ![id] = period]]

startCycling(handle, tms, period) ==
    LET stopped == stopCycling(handle, tms)
        id == NewTimer(stopped.timers)
    IN  [handle |-> id, timers |-> [stopped.timers EXCEPT ![id] = period]]

\* setupMobileRestrictions that hides the options and keeps a selection above 8
setupMobileRestrictionsKeepingCount(mobile, cfg, hidden, lds, g, cams, cci, locked, images) ==
    [ok |-> TRUE, config |-> cfg,
     hidden |-> IF mobile THEN hidden \cup {v \in CountOptions : v > MobileMax}
                ELSE hidden,
     loads |-> lds, grid |-> g]

setupMobileRestrictions(mobile, cfg, hidden, lds, g, cams, cci, locked, images) ==
    IF ~mobile
    THEN [ok |-> TRUE, config |-> cfg, hidden |-> hidden, loads |-> lds, grid |-> g]
    ELSE LET hide == hidden \cup {v \in CountOptions : v > MobileMax}
         IN  IF cfg.cameraCount > MobileMax
             THEN LET reset == [cfg EXCEPT !.cameraCount = MobileMax]
                      r == renderCameras(lds, cams, reset, cci, locked, images)
                  IN  [ok |-> r.ok, config |-> reset, hidden |-> hide,
                       loads |-> r.loads, grid |-> r.grid]
             ELSE [ok |-> TRUE, config |-> cfg, hidden |-> hide,
                   loads |-> lds, grid |-> g]

\* cameraData.presets && cameraData.presets.length > 0
HasPresets(cameraData) ==
    IF "presets" \in DOMAIN cameraData THEN Len(cameraData.presets) > 0 ELSE FALSE

\* processCameras on the controller's fields; ok is FALSE when the model has no room
\* for the image loads that renderCameras starts
processCameras(md, rawCameras, cfg, t, lds, cci, locked, images) ==
    LET processed == processedCameras(md, rawCameras)
        f == filterCameras(processed, cfg.dropOldCameras, t)
        r == renderCameras(lds, f.result, cfg, cci, locked, images)
    IN  [ok |-> r.ok, allCameras |-> f.input, cameras |-> f.result,
         selectors |-> populateSelectors(f.result), loads |-> r.loads,
         grid |-> r.grid]

----------------------------------------------------------------------------
(* The state after construction: init() has run to its first await, or has *)
(* returned because Turf is missing.  The page's markup is not part of the *)
(* sources: its selects start at the defaults of this.config, and its      *)
(* interval options start all enabled or enabled as for four cameras.      *)

DefaultConfig ==
    [cameraCount |-> 4, cycling |-> FALSE, cyclingInterval |-> 5000,
     cyclingMode |-> "all", selectedMunicipality |-> "", selectedStation |-> "",
     dropOldCameras |-> TRUE]

NotLoaded == [loaded |-> FALSE, features |-> <<>>]

Constructed(turf) ==
    /\ initPhase = IF turf THEN "muni" ELSE "failed"
    /\ status = IF turf THEN "loading" ELSE "error"
    /\ municipalityData = NotLoaded
    /\ allCameras = <<>>
    /\ cameras = <<>>
    /\ currentImages = [i \in Slots |-> NoCamera]
    /\ currentCycleIndex = 0
    /\ lockedCameras = {}
    /\ lastFullUpdate = -1
    /\ isMobile \in BOOLEAN
    /\ config = DefaultConfig
    /\ cyclingInterval = 0
    /\ timers = [id \in TimerIds |-> 0]
    /\ periodic = {}
    /\ grid = NoGrid
    /\ loads = [k \in 1..MaxLoads |-> NoLoad]
    /\ fetching = 0
    /\ refreshRequested = {}
    /\ selectors = [municipalities |-> {}, stations |-> {}]
    /\ intervalSelect \in {[value |-> 5000, disabled |-> d] :
                             d \in {{}, {v \in IntervalOptions : v < 5000}}}
    /\ hiddenCounts = {}
    /\ now = FourHours + 1
    /\ refreshCalls = 0
    /\ heldLocks = {}

----------------------------------------------------------------------------
(* init() after its awaits *)

InitMunicipalityOk(md) ==
    /\ initPhase = "muni"
    /\ municipalityData' = md
    /\ initPhase' = "cams"
    /\ status' = "loading"
    /\ UNCHANGED <<allCameras, cameras, currentImages, currentCycleIndex,
                   lockedCameras, lastFullUpdate, isMobile, config, cyclingInterval,
                   timers, periodic, grid, loads, fetching, refreshRequested,
                   selectors, intervalSelect, hiddenCounts, now,
                   refreshCalls, heldLocks>>

\* an init that goes on to the cameras although the municipality load failed
InitMunicipalityFailIgnored ==
    /\ initPhase = "muni"
    /\ initPhase' = "cams"
    /\ status' = "loading"
    /\ UNCHANGED <<municipalityData, allCameras, cameras, currentImages,
                   currentCycleIndex, lockedCameras, lastFullUpdate, isMobile, config,
                   cyclingInterval, timers, periodic, grid, loads, fetching,
                   refreshRequested, selectors, intervalSelect, hiddenCounts, now,
                   refreshCalls, heldLocks>>

InitMunicipalityFail ==
    /\ initPhase = "muni"
    /\ initPhase' = "failed"
    /\ status' = "error"
    /\ UNCHANGED <<municipalityData, allCameras, cameras, currentImages,
                   currentCycleIndex, lockedCameras, lastFullUpdate, isMobile, config,
                   cyclingInterval, timers, periodic, grid, loads, fetching,
                   refreshRequested, selectors, intervalSelect, hiddenCounts, now,
                   refreshCalls, heldLocks>>

InitCamerasOk(rawCameras) ==
    /\ initPhase = "cams"
    /\ LET p == processCameras(municipalityData, rawCameras, config, now, loads,
                               currentCycleIndex, lockedCameras, currentImages)
           m == setupMobileRestrictions(isMobile, config, hiddenCounts, p.loads,
                                        p.grid, p.cameras, currentCycleIndex,
                                        lockedCameras, currentImages)
       IN  /\ p.ok /\ m.ok
           /\ allCameras' = p.allCameras
           /\ cameras' = p.cameras
           /\ selectors' = p.selectors
           /\ config' = m.config
           /\ hiddenCounts' = m.hidden
           /\ loads' = m.loads
           /\ grid' = m.grid
    /\ lastFullUpdate' = now
    /\ periodic' = {"update", "reload", "refresh"}
    /\ initPhase' = "ready"
    /\ status' = "success"
    /\ UNCHANGED <<municipalityData, currentImages, currentCycleIndex, lockedCameras,
                   isMobile, cyclingInterval, timers, fetching, refreshRequested,
                   intervalSelect, now,
                   refreshCalls, heldLocks>>

InitCamerasFail ==
    /\ initPhase = "cams"
    /\ initPhase' = "failed"
    /\ status' = "error"
    /\ UNCHANGED <<municipalityData, allCameras, cameras, currentImages,
                   currentCycleIndex, lockedCameras, lastFullUpdate, isMobile, config,
                   cyclingInterval, timers, periodic, grid, loads, fetching,
                   refreshRequested, selectors, intervalSelect, hiddenCounts, now,
                   refreshCalls, heldLocks>>

----------------------------------------------------------------------------
(* The periodic timers of startPeriodicUpdates and startImageRefresh *)

\* the 30-minute timer: loadCameras up to its await
ReloadTick ==
    /\ "reload" \in periodic
    /\ fetching < MaxFetches
    /\ fetching' = fetching + 1
    /\ status' = "loading"
    /\ UNCHANGED <<initPhase, municipalityData, allCameras, cameras, currentImages,
                   currentCycleIndex, lockedCameras, lastFullUpdate, isMobile, config,
                   cyclingInterval, timers, periodic, grid, loads, refreshRequested,
                   selectors, intervalSelect, hiddenCounts, now,
                   refreshCalls, heldLocks>>

\* loadCameras after a response that is OK and parses
ReloadOk(rawCameras) ==
    /\ fetching > 0
    /\ LET p == processCameras(municipalityData, rawCameras, config, now, loads,
                               currentCycleIndex, lockedCameras, currentImages)
       IN  /\ p.ok
           /\ allCameras' = p.allCameras
           /\ cameras' = p.cameras
           /\ selectors' = p.selectors
           /\ loads' = p.loads
           /\ grid' = p.grid
    /\ lastFullUpdate' = now
    /\ fetching' = fetching - 1
    /\ status' = "success"
    /\ UNCHANGED <<initPhase, municipalityData, currentImages, currentCycleIndex,
                   lockedCameras, isMobile, config, cyclingInterval, timers, periodic,
                   refreshRequested, intervalSelect, hiddenCounts, now,
                   refreshCalls, heldLocks>>

\* a catch block that empties the camera list
ReloadFailClearing ==
    /\ fetching > 0
    /\ fetching' = fetching - 1
    /\ status' = "error"
    /\ cameras' = <<>>
    /\ allCameras' = <<>>
    /\ UNCHANGED <<initPhase, municipalityData, currentImages, currentCycleIndex,
                   lockedCameras, lastFullUpdate, isMobile, config, cyclingInterval,
                   timers, periodic, grid, loads, refreshRequested, selectors,
                   intervalSelect, hiddenCounts, now, refreshCalls, heldLocks>>

\* loadCameras after a rejected fetch or a response that is not OK: the catch block
ReloadFail ==
    /\ fetching > 0
    /\ fetching' = fetching - 1
    /\ status' = "error"
    /\ UNCHANGED <<initPhase, municipalityData, allCameras, cameras, currentImages,
                   currentCycleIndex, lockedCameras, lastFullUpdate, isMobile, config,
                   cyclingInterval, timers, periodic, grid, loads, refreshRequested,
                   selectors, intervalSelect, hiddenCounts, now,
                   refreshCalls, heldLocks>>

\* the one-minute timer: updateCameraImages up to its first await
UpdateTick ==
    /\ "update" \in periodic
    /\ LET i == UpdateNext(0, config.cameraCount, cameras, lockedCameras,
                           currentImages, grid)
       IN  IF i = -1
           THEN /\ status' = "success"
                /\ UNCHANGED <<loads, grid>>
           ELSE /\ FreeLoads(loads) # {}
                /\ loads' = Await(loads, FirstFree(loads), "update", "update", i,
                                  FindCamera(cameras, currentImages[i].presetId),
                                  <<>>, 0)
                /\ grid' = ShowLoading(grid, i)
                /\ UNCHANGED status
    /\ UNCHANGED <<initPhase, municipalityData, allCameras, cameras, currentImages,
                   currentCycleIndex, lockedCameras, lastFullUpdate, isMobile, config,
                   cyclingInterval, timers, periodic, fetching, refreshRequested,
                   selectors, intervalSelect, hiddenCounts, now,
                   refreshCalls, heldLocks>>

\* refreshCurrentImages: the slots whose image it requests again
refreshCurrentImages(g, images) ==
    {i \in DOMAIN g.cells :
        HasImageElement(g, i) /\ images[i] # NoCamera /\ HasPresets(images[i])}

\* the image-refresh timer
RefreshTick ==
    /\ "refresh" \in periodic
    /\ \E i \in Slots : currentImages[i] # NoCamera
    /\ refreshCalls < MaxRefreshCalls
    /\ refreshCalls' = refreshCalls + 1
    /\ refreshRequested' = refreshCurrentImages(grid, currentImages)
    /\ UNCHANGED <<initPhase, municipalityData, allCameras, cameras, currentImages,
                   currentCycleIndex, lockedCameras, lastFullUpdate, isMobile, config,
                   cyclingInterval, timers, periodic, grid, loads, fetching,
                   selectors, intervalSelect, hiddenCounts, status, now, heldLocks>>

\* a cycling timer fires: cycleCameras
CycleTick(id) ==
    /\ timers[id] # 0
    /\ LET availableCameras == getFilteredCameras(cameras, config)
       IN  IF Len(availableCameras) = 0
           THEN UNCHANGED <<currentCycleIndex, loads, grid>>
           ELSE LET next == (currentCycleIndex + config.cameraCount)
                               % Len(availableCameras)
                    r == loadCameraImages("cycle", loads, grid, cameras, config, next,
                                          lockedCameras, currentImages)
                IN  /\ r.ok
                    /\ currentCycleIndex' = next
                    /\ loads' = r.loads
                    /\ grid' = r.grid
    /\ UNCHANGED <<initPhase, municipalityData, allCameras, cameras, currentImages,
                   lockedCameras, lastFullUpdate, isMobile, config, cyclingInterval,
                   timers, periodic, fetching, refreshRequested, selectors,
                   intervalSelect, hiddenCounts, status, now,
                   refreshCalls, heldLocks>>

----------------------------------------------------------------------------
(* loadSingleCamera after its await, and the caller's loop up to the next  *)
(* await.  A load whose container holds the error message fails in         *)
(* updateCameraInfo and lands in the catch block as a failed load does.    *)

LoadDone(k, loaded) ==
    /\ loads[k] # NoLoad
    /\ LET l == loads[k]
           succeeded == loaded /\ ~l.broken
           images == IF succeeded
                     THEN [currentImages EXCEPT ![l.i] = l.camera]
                     ELSE currentImages
           g == IF l.cont # 0 THEN grid
                ELSE [grid EXCEPT !.cells[l.i] = IF succeeded THEN "image" ELSE "error"]
           lds == IF succeeded THEN loads
                  ELSE [j \in DOMAIN loads |->
                          IF j # k /\ loads[j] # NoLoad /\ loads[j].i = l.i
                             /\ loads[j].cont = l.cont
                          THEN [loads[j] EXCEPT !.broken = TRUE]
                          ELSE loads[j]]
           next == IF l.kind = "images"
                   THEN ImagesNext(l.i + 1, l.count, lockedCameras, images, g)
                   ELSE UpdateNext(l.i + 1, config.cameraCount, cameras,
                                   lockedCameras, images, g)
       IN  /\ currentImages' = images
           /\ IF next = -1
              THEN /\ loads' = [lds EXCEPT ![k] = NoLoad]
                   /\ grid' = g
                   /\ status' = IF l.kind = "update" THEN "success" ELSE status
              ELSE /\ loads' = Await(lds, k, l.kind, l.by, next,
                                     IF l.kind = "images"
                                     THEN CameraAt(l.avail, currentCycleIndex, next)
                                     ELSE FindCamera(cameras, images[next].presetId),
                                     l.avail, l.count)
                   /\ grid' = ShowLoading(g, next)
                   /\ UNCHANGED status
    /\ UNCHANGED <<initPhase, municipalityData, allCameras, cameras,
                   currentCycleIndex, lockedCameras, lastFullUpdate, isMobile, config,
                   cyclingInterval, timers, periodic, fetching, refreshRequested,
                   selectors, intervalSelect, hiddenCounts, now,
                   refreshCalls, heldLocks>>

----------------------------------------------------------------------------
(* The listeners of setupEventListeners and createCameraContainer *)

\* a handler that ends in renderCameras with the configuration cfg
Rerender(cfg, cams) ==
    LET r == renderCameras(loads, cams, cfg, currentCycleIndex, lockedCameras,
                           currentImages)
    IN  /\ r.ok
        /\ loads' = r.loads
        /\ grid' = r.grid

CameraCountChange(v) ==
    /\ initPhase = "ready"
    /\ v \in CountOptions \ hiddenCounts
    /\ v # config.cameraCount
    /\ LET u == updateCycleTimeOptions([config EXCEPT !.cameraCount = v],
                                       intervalSelect)
       IN  /\ config' = u.config
           /\ intervalSelect' = u.select
           /\ Rerender(u.config, cameras)
    /\ UNCHANGED <<initPhase, municipalityData, allCameras, cameras, currentImages,
                   currentCycleIndex, lockedCameras, lastFullUpdate, isMobile,
                   cyclingInterval, timers, periodic, fetching, refreshRequested,
                   selectors, hiddenCounts, status, now,
                   refreshCalls, heldLocks>>

CyclingToggle ==
    /\ initPhase = "ready"
    /\ LET t == IF config.cycling
                THEN stopCycling(cyclingInterval, timers)
                ELSE startCycling(cyclingInterval, timers, config.cyclingInterval)
       IN  /\ cyclingInterval' = t.handle
           /\ timers' = t.timers
    /\ config' = [config EXCEPT !.cycling = ~@]
    /\ UNCHANGED <<initPhase, municipalityData, allCameras, cameras, currentImages,
                   currentCycleIndex, lockedCameras, lastFullUpdate, isMobile,
                   periodic, grid, loads, fetching, refreshRequested, selectors,
                   intervalSelect, hiddenCounts, status, now,
                   refreshCalls, heldLocks>>

\* a listener that stores the new interval and leaves the running timer alone
CyclingIntervalChangeStoringOnly(v) ==
    /\ initPhase = "ready"
    /\ v \in IntervalOptions \ intervalSelect.disabled
    /\ v # intervalSelect.value
    /\ intervalSelect' = [intervalSelect EXCEPT !.value = v]
    /\ config' = [config EXCEPT !.cyclingInterval = v]
    /\ UNCHANGED <<cyclingInterval, timers>>
    /\ UNCHANGED <<initPhase, municipalityData, allCameras, cameras, currentImages,
                   currentCycleIndex, lockedCameras, lastFullUpdate, isMobile,
                   periodic, grid, loads, fetching, refreshRequested, selectors,
                   hiddenCounts, status, now,
                   refreshCalls, heldLocks>>

CyclingIntervalChange(v) ==
    /\ initPhase = "ready"
    /\ v \in IntervalOptions \ intervalSelect.disabled
    /\ v # intervalSelect.value
    /\ intervalSelect' = [intervalSelect EXCEPT !.value = v]
    /\ config' = [config EXCEPT !.cyclingInterval = v]
    /\ IF config.cycling
       THEN LET t == startCycling(cyclingInterval, timers, v)
            IN  /\ cyclingInterval' = t.handle
                /\ timers' = t.timers
       ELSE UNCHANGED <<cyclingInterval, timers>>
    /\ UNCHANGED <<initPhase, municipalityData, allCameras, cameras, currentImages,
                   currentCycleIndex, lockedCameras, lastFullUpdate, isMobile,
                   periodic, grid, loads, fetching, refreshRequested, selectors,
                   hiddenCounts, status, now,
                   refreshCalls, heldLocks>>

CyclingModeChange(m) ==
    /\ initPhase = "ready"
    /\ m \in {"all", "municipality", "station"} \ {config.cyclingMode}
    /\ config' = [config EXCEPT !.cyclingMode = m]
    /\ Rerender(config', cameras)
    /\ UNCHANGED <<initPhase, municipalityData, allCameras, cameras, currentImages,
                   currentCycleIndex, lockedCameras, lastFullUpdate, isMobile,
                   cyclingInterval, timers, periodic, fetching, refreshRequested,
                   selectors, intervalSelect, hiddenCounts, status, now,
                   refreshCalls, heldLocks>>

SelectedMunicipalityChange(v) ==
    /\ initPhase = "ready"
    /\ v \in (selectors.municipalities \cup {""}) \ {config.selectedMunicipality}
    /\ config' = [config EXCEPT !.selectedMunicipality = v]
    /\ Rerender(config', cameras)
    /\ UNCHANGED <<initPhase, municipalityData, allCameras, cameras, currentImages,
                   currentCycleIndex, lockedCameras, lastFullUpdate, isMobile,
                   cyclingInterval, timers, periodic, fetching, refreshRequested,
                   selectors, intervalSelect, hiddenCounts, status, now,
                   refreshCalls, heldLocks>>

SelectedStationChange(v) ==
    /\ initPhase = "ready"
    /\ v \in (selectors.stations \cup {""}) \ {config.selectedStation}
    /\ config' = [config EXCEPT !.selectedStation = v]
    /\ Rerender(config', cameras)
    /\ UNCHANGED <<initPhase, municipalityData, allCameras, cameras, currentImages,
                   currentCycleIndex, lockedCameras, lastFullUpdate, isMobile,
                   cyclingInterval, timers, periodic, fetching, refreshRequested,
                   selectors, intervalSelect, hiddenCounts, status, now,
                   refreshCalls, heldLocks>>

DropOldCamerasChange ==
    /\ initPhase = "ready"
    /\ config' = [config EXCEPT !.dropOldCameras = ~@]
    /\ LET f == filterCameras(allCameras, config'.dropOldCameras, now)
       IN  /\ cameras' = f.result
           /\ allCameras' = f.input
           /\ Rerender(config', f.result)
    /\ UNCHANGED <<initPhase, municipalityData, currentImages, currentCycleIndex,
                   lockedCameras, lastFullUpdate, isMobile, cyclingInterval, timers,
                   periodic, fetching, refreshRequested, selectors, intervalSelect,
                   hiddenCounts, status, now,
                   refreshCalls, heldLocks>>

toggleCameraLock(index) ==
    /\ initPhase = "ready"
    /\ HasImageElement(grid, index)
    /\ lockedCameras' = IF index \in lockedCameras
                        THEN lockedCameras \ {index}
                        ELSE lockedCameras \cup {index}
    /\ heldLocks' = IF index \in lockedCameras THEN heldLocks \ {index}
                    ELSE IF currentImages[index] # NoCamera
                         THEN heldLocks \cup {index}
                         ELSE heldLocks
    /\ UNCHANGED <<initPhase, municipalityData, allCameras, cameras, currentImages,
                   currentCycleIndex, lastFullUpdate, isMobile, config,
                   cyclingInterval, timers, periodic, grid, loads, fetching,
                   refreshRequested, selectors, intervalSelect, hiddenCounts, status,
                   now, refreshCalls>>

\* the resize listener; mobile is what detectMobile returns now
Resize(mobile) ==
    /\ initPhase = "ready"
    /\ isMobile' = mobile
    /\ IF mobile # isMobile
       THEN LET m == setupMobileRestrictions(mobile, config, hiddenCounts, loads, grid,
                         cameras, currentCycleIndex, lockedCameras, currentImages)
                r == renderCameras(m.loads, cameras, m.config, currentCycleIndex,
                                   lockedCameras, currentImages)
            IN  /\ m.ok /\ r.ok
                /\ config' = m.config
                /\ hiddenCounts' = m.hidden
                /\ loads' = r.loads
                /\ grid' = r.grid
       ELSE UNCHANGED <<config, hiddenCounts, loads, grid>>
    /\ UNCHANGED <<initPhase, municipalityData, allCameras, cameras, currentImages,
                   currentCycleIndex, lockedCameras, lastFullUpdate, cyclingInterval,
                   timers, periodic, fetching, refreshRequested, selectors,
                   intervalSelect, status, now,
                   refreshCalls, heldLocks>>

\* time passes
AdvanceClock ==
    /\ now < MaxNow
    /\ now' = now + 1
    /\ UNCHANGED <<initPhase, municipalityData, allCameras, cameras, currentImages,
                   currentCycleIndex, lockedCameras, lastFullUpdate, isMobile, config,
                   cyclingInterval, timers, periodic, grid, loads, fetching,
                   refreshRequested, selectors, intervalSelect, hiddenCounts, status,
                   refreshCalls, heldLocks>>

----------------------------------------------------------------------------
(* What the two fetches may answer *)

Polygon(covers, nimi) ==
    [gtype |-> "Polygon", covers |-> covers, nimi |-> nimi, wellFormed |-> TRUE]
MultiPolygon(covers, nimi) ==
    [gtype |-> "MultiPolygon", covers |-> covers, nimi |-> nimi, wellFormed |-> TRUE]

Station(cameraId, name, lat, lon, presets) ==
    [cameraId |-> cameraId, name |-> name, lat |-> lat, lon |-> lon,
     presets |-> presets]
Preset(presetId, measuredTime) ==
    [presetId |-> presetId, measuredTime |-> measuredTime]

Municipalities ==
    [loaded |-> TRUE,
     features |-> << Polygon({<<25, 65>>}, "Oulu"),
                     MultiPolygon({<<25, 64>>}, "Kempele") >>]

\* one station with one fresh preset
OneCamera ==
    << Station("C1", "Oulu_A", 65, 25, <<Preset("p1", 3)>>) >>
\* two stations, three fresh presets
ThreeCameras ==
    << Station("C1", "Oulu_A", 65, 25, <<Preset("p1", 3), Preset("p2", 4)>>),
       Station("C2", "Kempele_B", 64, 25, <<Preset("p3", 2)>>) >>
\* two stations in Oulu and one in Kempele whose preset is older than four hours
MixedStations ==
    << Station("C1", "Oulu_A", 65, 25, <<Preset("p1", 3)>>),
       Station("C3", "Oulu_C", 65, 25, <<Preset("p2", 4)>>),
       Station("C2", "Kempele_B", 64, 25, <<Preset("p3", 1)>>) >>
\* two stations, four fresh presets
FourCameras ==
    << Station("C1", "Oulu_A", 65, 25, <<Preset("p1", 4), Preset("p2", 3)>>),
       Station("C2", "Kempele_B", 64, 25, <<Preset("p3", 3), Preset("p4", 2)>>) >>
\* two stations, one preset older than four hours at the start
TwoStations ==
    << Station("C1", "Oulu_A", 65, 25, <<Preset("p1", 3), Preset("p2", 1)>>),
       Station("C2", "Kempele_B", 64, 25, <<Preset("p3", 4)>>) >>
\* the API lists one preset twice
Repeated ==
    << Station("C1", "Oulu_A", 65, 25, <<Preset("p1", 3), Preset("p1", 3)>>) >>

Responses == {TwoStations, Repeated, <<>>}

----------------------------------------------------------------------------
Init == \E turf \in BOOLEAN : Constructed(turf)

Next ==
    \/ InitMunicipalityOk(Municipalities)
    \/ InitMunicipalityFail
    \/ \E raw \in Responses : InitCamerasOk(raw)
    \/ InitCamerasFail
    \/ ReloadTick
    \/ \E raw \in Responses : ReloadOk(raw)
    \/ ReloadFail
    \/ UpdateTick
    \/ RefreshTick
    \/ \E id \in TimerIds : CycleTick(id)
    \/ \E k \in 1..MaxLoads, loaded \in BOOLEAN : LoadDone(k, loaded)
    \/ \E v \in CountOptions : CameraCountChange(v)
    \/ CyclingToggle
    \/ \E v \in IntervalOptions : CyclingIntervalChange(v)
    \/ \E m \in {"all", "municipality", "station"} : CyclingModeChange(m)
    \/ \E v \in {"", "Oulu", "Kempele", "Unknown"} : SelectedMunicipalityChange(v)
    \/ \E v \in {"", "Oulu_A", "Kempele_B"} : SelectedStationChange(v)
    \/ DropOldCamerasChange
    \/ \E i \in Slots : toggleCameraLock(i)
    \/ \E mobile \in BOOLEAN : Resize(mobile)
    \/ AdvanceClock

Spec == Init /\ [][Next]_vars

----------------------------------------------------------------------------
(* The controls of the settings panel: camera count, cycling and its       *)
(* interval, and the mobile restriction, over one camera list.             *)

NextControls ==
    \/ InitMunicipalityOk(Municipalities)
    \/ InitCamerasOk(OneCamera)
    \/ \E v \in CountOptions : CameraCountChange(v)
    \/ CyclingToggle
    \/ \E v \in IntervalOptions : CyclingIntervalChange(v)
    \/ \E mobile \in BOOLEAN : Resize(mobile)
    \/ \E id \in TimerIds : CycleTick(id)
    \/ \E k \in 1..MaxLoads : LoadDone(k, TRUE)

InitControls == Constructed(TRUE)

SpecControls == InitControls /\ [][NextControls]_vars

----------------------------------------------------------------------------
(* The specifications below that leave the settings panel alone start on  *)
(* a desktop browser whose interval options are all enabled.               *)

InitDesktop == Constructed(TRUE) /\ ~isMobile /\ intervalSelect.disabled = {}

(* The 30-minute reload while the display cycles.                          *)

NextReload ==
    \/ InitMunicipalityOk(Municipalities)
    \/ \E raw \in {ThreeCameras, Repeated} : InitCamerasOk(raw)
    \/ ReloadTick
    \/ \E raw \in {ThreeCameras, Repeated, <<>>} : ReloadOk(raw)
    \/ ReloadFail
    \/ CyclingToggle
    \/ \E id \in TimerIds : CycleTick(id)
    \/ \E k \in 1..MaxLoads : LoadDone(k, TRUE)
    \/ AdvanceClock

SpecReload == InitDesktop /\ [][NextReload]_vars

(* Locks against the cycling timer and the one-minute update.              *)

NextLock ==
    \/ InitMunicipalityOk(Municipalities)
    \/ InitCamerasOk(ThreeCameras)
    \/ CyclingToggle
    \/ \E id \in TimerIds : CycleTick(id)
    \/ UpdateTick
    \/ \E i \in Slots : toggleCameraLock(i)
    \/ \E k \in 1..MaxLoads : LoadDone(k, TRUE)

SpecLock == InitDesktop /\ [][NextLock]_vars

(* The image-refresh timer beside the one-minute update.                   *)

NextRefresh ==
    \/ InitMunicipalityOk(Municipalities)
    \/ InitCamerasOk(ThreeCameras)
    \/ RefreshTick
    \/ UpdateTick
    \/ \E k \in 1..MaxLoads, loaded \in BOOLEAN : LoadDone(k, loaded)

SpecRefresh == InitDesktop /\ [][NextRefresh]_vars

(* The cycling mode and its selectors over cameras of two municipalities.  *)

NextSelect ==
    \/ InitMunicipalityOk(Municipalities)
    \/ InitCamerasOk(MixedStations)
    \/ ReloadTick
    \/ ReloadOk(MixedStations)
    \/ \E m \in {"all", "municipality", "station"} : CyclingModeChange(m)
    \/ \E v \in {"", "Oulu", "Kempele"} : SelectedMunicipalityChange(v)
    \/ \E v \in {"", "Oulu_A", "Oulu_C", "Kempele_B"} : SelectedStationChange(v)
    \/ DropOldCamerasChange
    \/ \E k \in 1..MaxLoads : LoadDone(k, TRUE)

SpecSelect == InitDesktop /\ [][NextSelect]_vars

(* filterCameras over every list of up to MaxPresets presets of one        *)
(* station, as the clock advances.                                         *)

MeasuredTimes == 1..3
PresetIds == <<"p1", "p2", "p3", "p4", "p5">>

PresetLists ==
    UNION {{[j \in 1..n |-> Preset(PresetIds[j], times[j])] :
               times \in [1..n -> MeasuredTimes]} : n \in 0..MaxPresets}

NextFilter ==
    \/ InitMunicipalityOk(Municipalities)
    \/ \E presets \in PresetLists :
          InitCamerasOk(<<Station("C1", "Oulu_A", 65, 25, presets)>>)
    \/ DropOldCamerasChange
    \/ AdvanceClock
    \/ \E k \in 1..MaxLoads : LoadDone(k, TRUE)

SpecFilter == InitDesktop /\ [][NextFilter]_vars

(* Ingestion over every municipality data set of up to MaxFeatures         *)
(* features and stations inside, between and outside their geometries.    *)

GeoFeatures ==
    { Polygon({<<25, 65>>}, "Oulu"),
      Polygon({<<25, 65>>, <<25, 64>>}, "Ii"),
      MultiPolygon({<<25, 64>>}, "Kempele"),
      MultiPolygon({<<25, 65>>}, ""),
      [gtype |-> "LineString", covers |-> {<<25, 65>>, <<25, 64>>},
       nimi |-> "Liminka", wellFormed |-> TRUE],
      [gtype |-> "Polygon", covers |-> {}, nimi |-> "Hailuoto",
       wellFormed |-> FALSE],
      [gtype |-> "none", covers |-> {}, nimi |-> "Muhos", wellFormed |-> TRUE] }

GeoData ==
    UNION {{[loaded |-> TRUE, features |-> f] : f \in [1..n -> GeoFeatures]} :
              n \in 0..MaxFeatures}

GeoStations ==
    << Station("C1", "Oulu_A", 65, 25, <<Preset("p1", 3), Preset("p2", 4)>>),
       Station("C2", "Kempele_B", 64, 25, <<Preset("p3", 2)>>),
       Station("C4", "Nowhere_D", NoCoord, NoCoord, <<Preset("p4", 3)>>) >>

NextIngest ==
    \/ \E md \in GeoData : InitMunicipalityOk(md)
    \/ InitCamerasOk(GeoStations)
    \/ \E k \in 1..MaxLoads : LoadDone(k, TRUE)

SpecIngest == InitDesktop /\ [][NextIngest]_vars

(* Cycling over four cameras with two or four slots.  The browser fires   *)
(* a running interval timer again and again, and every image request      *)
(* is answered (here: with the image).                                     *)

NextCycle ==
    \/ InitMunicipalityOk(Municipalities)
    \/ InitCamerasOk(FourCameras)
    \/ \E v \in {2, 4} : CameraCountChange(v)
    \/ CyclingToggle
    \/ \E id \in TimerIds : CycleTick(id)
    \/ \E k \in 1..MaxLoads : LoadDone(k, TRUE)

FairCycle ==
    /\ WF_vars(\E id \in TimerIds : CycleTick(id))
    /\ \A k \in 1..MaxLoads : WF_vars(LoadDone(k, TRUE))

SpecCycle == InitDesktop /\ [][NextCycle]_vars /\ FairCycle

(* renderCameras with every camera count of the count select, over no      *)
(* camera, fewer cameras than a grid size (3 of 4, 9 of 12) and more       *)
(* cameras than the largest grid.  The count is changed while no image is  *)
(* being loaded; the reload may come at any moment.                        *)

GridPresetIds ==
    << "g1", "g2", "g3", "g4", "g5", "g6", "g7", "g8", "g9", "g10", "g11", "g12",
       "g13", "g14", "g15", "g16", "g17" >>

GridResponse(n) ==
    << Station("C1", "Oulu_A", 65, 25, [j \in 1..n |-> Preset(GridPresetIds[j], 3)]) >>

GridLengths == {0, 3, 9, MaxSlots + 1}

GridResponses == {GridResponse(n) : n \in GridLengths}

NextGrid ==
    \/ InitMunicipalityOk(Municipalities)
    \/ \E raw \in GridResponses : InitCamerasOk(raw)
    \/ ReloadTick
    \/ ReloadOk(GridResponse(0))
    \/ \E v \in CountOptions : ActiveLoads(loads) = {} /\ CameraCountChange(v)
    \/ \E k \in 1..MaxLoads : LoadDone(k, TRUE)

SpecGrid == InitDesktop /\ [][NextGrid]_vars

(* Re-rendering with locked slots.  Every image request is answered, with *)
(* the image or with an error, and the one-minute update timer keeps       *)
(* firing.                                                                 *)

NextRender ==
    \/ InitMunicipalityOk(Municipalities)
    \/ InitCamerasOk(ThreeCameras)
    \/ \E v \in {2, 4} : CameraCountChange(v)
    \/ \E i \in Slots : toggleCameraLock(i)
    \/ UpdateTick
    \/ \E k \in 1..MaxLoads, loaded \in BOOLEAN : LoadDone(k, loaded)

FairRender ==
    /\ WF_vars(UpdateTick)
    /\ \A k \in 1..MaxLoads : WF_vars(\E loaded \in BOOLEAN : LoadDone(k, loaded))

SpecRender == InitDesktop /\ [][NextRender]_vars /\ FairRender

(* The cycling toggle and the interval select while the rotation runs     *)
(* over three cameras and slots are locked and unlocked.                   *)

NextTimer ==
    \/ InitMunicipalityOk(Municipalities)
    \/ InitCamerasOk(ThreeCameras)
    \/ CyclingToggle
    \/ \E v \in {5000, 8000, 10000} : CyclingIntervalChange(v)
    \/ \E id \in TimerIds : CycleTick(id)
    \/ \E i \in {0, 1} : toggleCameraLock(i)
    \/ \E k \in 1..MaxLoads : LoadDone(k, TRUE)

SpecTimer == InitDesktop /\ [][NextTimer]_vars

(* init() with and without Turf, each of its two loads succeeding or       *)
(* failing, and what the page does afterwards with one camera.             *)

NextInit ==
    \/ InitMunicipalityOk(Municipalities)
    \/ InitMunicipalityFail
    \/ \E raw \in {OneCamera, <<>>} : InitCamerasOk(raw)
    \/ InitCamerasFail
    \/ ReloadTick
    \/ ReloadOk(OneCamera)
    \/ ReloadFail
    \/ UpdateTick
    \/ RefreshTick
    \/ CyclingToggle
    \/ \E id \in TimerIds : CycleTick(id)
    \/ toggleCameraLock(0)
    \/ \E k \in 1..MaxLoads, loaded \in BOOLEAN : LoadDone(k, loaded)

SpecInit == Init /\ [][NextInit]_vars

----------------------------------------------------------------------------
(* C1: after processCameras has ingested a response, neither this.cameras  *)
(* nor this.allCameras holds two entries with the same presetId.           *)
C1_NoDuplicatePresetIds ==
    /\ \A i, j \in 1..Len(cameras) :
          i # j => cameras[i].presetId # cameras[j].presetId
    /\ \A i, j \in 1..Len(allCameras) :
          i # j => allCameras[i].presetId # allCameras[j].presetId

(* C2: getFilteredCameras returns, in the order of this.cameras, exactly   *)
(* the cameras of the selected municipality in mode 'municipality', of the *)
(* selected station in mode 'station', and all cameras in mode 'all' or    *)
(* with an empty selection; the other mode's selection plays no part.      *)
C2_Selected(c) ==
    IF config.cyclingMode = "municipality" /\ config.selectedMunicipality # ""
    THEN c.municipality = config.selectedMunicipality
    ELSE IF config.cyclingMode = "station" /\ config.selectedStation # ""
    THEN c.stationName = config.selectedStation
    ELSE TRUE

C2_FilteredCamerasAreTheSelection ==
    LET filtered == getFilteredCameras(cameras, config)
        chosen == {j \in 1..Len(cameras) : C2_Selected(cameras[j])}
    IN  /\ Len(filtered) = Cardinality(chosen)
        /\ \A j \in chosen :
              filtered[Cardinality({h \in chosen : h <= j})] = cameras[j]

\* mode 'municipality' with Oulu selected and a station selected as well: two of
\* the three cameras are rendered
C2_MunicipalityOfThree ==
    /\ config.cyclingMode = "municipality"
    /\ config.selectedMunicipality = "Oulu"
    /\ config.selectedStation = "Oulu_A"
    /\ Len(cameras) = 3
    /\ Len(getFilteredCameras(cameras, config)) = 2
    /\ DOMAIN grid.cells = 0..1

(* C3: while cycling runs with a fixed camera count and no slot locked,    *)
(* every camera of the filtered list is eventually displayed in some slot. *)
C3_Displayed(j) ==
    LET filtered == getFilteredCameras(cameras, config)
    IN  j <= Len(filtered) =>
           \E i \in 0..(config.cameraCount - 1) :
              IsContainer(grid, i) /\ currentImages[i] = filtered[j]

C3_Running(c) ==
    /\ config.cycling
    /\ config.cameraCount = c
    /\ lockedCameras = {}
    /\ getFilteredCameras(cameras, config) # <<>>

C3_EveryCameraEventuallyDisplayed ==
    \A c \in {2, 4} : \A j \in 1..4 :
        C3_Running(c) ~> (~C3_Running(c) \/ C3_Displayed(j))

(* C4: filterCameras returns, newest measuredTime first, exactly the       *)
(* cameras of its input measured strictly later than four hours before the *)
(* call when dropOldCameras is enabled, and every camera of its input when *)
(* it is disabled; the input list is left as it was.                       *)
C4_Count(list, c) == Cardinality({j \in 1..Len(list) : list[j] = c})

C4_FilterCamerasResult ==
    [][(config'.dropOldCameras # config.dropOldCameras) =>
          /\ allCameras' = allCameras
          /\ \A j \in 1..Len(allCameras) :
                C4_Count(cameras', allCameras[j]) =
                    IF config'.dropOldCameras
                       /\ ~(allCameras[j].measuredTime > now - FourHours)
                    THEN 0
                    ELSE C4_Count(allCameras, allCameras[j])
          /\ \A j \in 1..Len(cameras') : C4_Count(allCameras, cameras'[j]) > 0
          /\ \A j, k \in 1..Len(cameras') :
                j < k => cameras'[j].measuredTime >= cameras'[k].measuredTime]_vars

\* the filter has dropped a camera measured exactly four hours ago from an input
\* that was not in order, and kept a newer one
C4_DroppedAtFourHours ==
    /\ initPhase = "ready"
    /\ config.dropOldCameras
    /\ Len(allCameras) = 3
    /\ allCameras[1].measuredTime < allCameras[3].measuredTime
    /\ \E j \in 1..3 : allCameras[j].measuredTime = now - FourHours
    /\ Len(cameras) = 1
    /\ cameras[1].measuredTime > now - FourHours
    /\ now > FourHours + 1

(* C5: each call of refreshCurrentImages by the image-refresh timer        *)
(* requests again the image of every slot that displays a camera.          *)
C5_RefreshRequestsDisplayed ==
    [][refreshCalls' # refreshCalls =>
         \A i \in DOMAIN grid.cells :
            (grid.cells[i] = "image" /\ currentImages[i] # NoCamera)
                => i \in refreshRequested']_vars

(* C6: while a slot that was locked when it held an image stays locked, no *)
(* image load of a cycling tick or of the one-minute update replaces the   *)
(* camera recorded for it in currentImages.                                *)
C6_LockedSlotKeepsCamera ==
    [][\A i \in heldLocks \cap heldLocks' :
          \/ currentImages'[i] = currentImages[i]
          \/ ~\E k \in ActiveLoads(loads) :
                /\ loads[k].by \in {"cycle", "update"}
                /\ loads[k].i = i
                /\ loads'[k] # loads[k]
                /\ loads[k].camera = currentImages'[i]]_vars

(* C7: every ingested preset carries the municipality of its station's    *)
(* coordinates: the name of the first feature, in data order, whose        *)
(* Polygon or MultiPolygon contains the point, and 'Unknown' when there is *)
(* none, when that feature has no name, when the data is not loaded or     *)
(* when the lookup throws; presets of one station agree.                   *)
C7_Contains(k, c) ==
    LET feature == municipalityData.features[k]
    IN  /\ feature.gtype \in {"Polygon", "MultiPolygon"}
        /\ feature.wellFormed
        /\ <<c.lon, c.lat>> \in feature.covers

C7_Throws(k) ==
    LET feature == municipalityData.features[k]
    IN  feature.gtype \in {"Polygon", "MultiPolygon"} /\ ~feature.wellFormed

C7_Municipality(c) ==
    LET n == Len(municipalityData.features)
        containing == {k \in 1..n : C7_Contains(k, c)}
        first == CHOOSE k \in containing : \A h \in containing : k <= h
        thrown == \/ c.lat = NoCoord \/ c.lon = NoCoord
                  \/ \E k \in 1..n :
                        C7_Throws(k) /\ (containing = {} \/ k < first)
    IN  IF ~municipalityData.loaded \/ thrown \/ containing = {} THEN "Unknown"
        ELSE IF municipalityData.features[first].nimi = "" THEN "Unknown"
        ELSE municipalityData.features[first].nimi

C7_MunicipalityOfCoordinates ==
    /\ \A j \in 1..Len(allCameras) :
          allCameras[j].municipality = C7_Municipality(allCameras[j])
    /\ \A j, k \in 1..Len(allCameras) :
          allCameras[j].cameraId = allCameras[k].cameraId
              => allCameras[j].municipality = allCameras[k].municipality

\* two features contain the first station and the first of them names it, the
\* other stations are outside every feature or have no coordinates
C7_FirstOfTwoFeatures ==
    /\ initPhase = "ready"
    /\ Len(municipalityData.features) = 2
    /\ municipalityData.features[1].nimi = "Ii"
    /\ municipalityData.features[2].nimi = "Oulu"
    /\ Len(allCameras) = 4
    /\ allCameras[1].municipality = "Ii"
    /\ allCameras[2].municipality = "Ii"
    /\ allCameras[3].municipality = "Ii"
    /\ allCameras[4].municipality = "Unknown"

(* C8: a failed fetch of the 30-minute reload leaves the camera lists, the *)
(* time of the last full update, the displayed cameras and the cycle index *)
(* unchanged, sets the status to an error, starts no other fetch and       *)
(* leaves every timer running.                                             *)
C8_FailedReloadChangesNothing ==
    [][(fetching' < fetching /\ status' = "error") =>
          /\ cameras' = cameras
          /\ allCameras' = allCameras
          /\ lastFullUpdate' = lastFullUpdate
          /\ currentImages' = currentImages
          /\ currentCycleIndex' = currentCycleIndex
          /\ fetching' = fetching - 1
          /\ loads' = loads
          /\ periodic' = periodic /\ "reload" \in periodic'
          /\ timers' = timers]_vars

\* a reload has failed while cameras are displayed and the cycle has advanced
C8_AfterFailedReload ==
    /\ initPhase = "ready"
    /\ status = "error"
    /\ fetching = 0
    /\ cameras # <<>>
    /\ lastFullUpdate # -1 /\ lastFullUpdate < now
    /\ currentCycleIndex # 0
    /\ \E i \in Slots : currentImages[i] # NoCamera

----------------------------------------------------------------------------
(* C9: whenever a cycling timer is running, the period it fires with is    *)
(* not below the minimum cycle time of the current camera count.           *)
C9_TimerPeriodAtLeastMinimum ==
    \A id \in TimerIds :
        timers[id] # 0 => timers[id] >= minCycleTimes(config.cameraCount)

(* C10: once init's setup has completed, and after every resize handler,   *)
(* a mobile device has a camera count of at most 8.                        *)
C10_MobileCountAtMostEight ==
    (initPhase = "ready" /\ isMobile) => config.cameraCount <= MobileMax

\* a selection of 16 was reset when the device became mobile: the interval options
\* are still disabled as for 16 cameras
C10_ResetOnMobile ==
    /\ initPhase = "ready"
    /\ isMobile
    /\ config.cameraCount = MobileMax
    /\ intervalSelect.disabled = {v \in IntervalOptions : v < minCycleTimes(16)}
    /\ {12, 16} \subseteq hiddenCounts

----------------------------------------------------------------------------
(* C11: once renderCameras has run, with a cameras available and camera    *)
(* count c, the grid holds min(c, a) camera containers camera-0 .. followed *)
(* by placeholders, in all as many cells as the smallest count option that *)
(* is at least min(c, a); with no camera available it holds the message    *)
(* alone, no container, and no image load has been started on it.          *)
C11_Available == Len(getFilteredCameras(cameras, config))

C11_Containers == Min(config.cameraCount, C11_Available)

C11_Cells ==
    CHOOSE s \in CountOptions :
        /\ s >= C11_Containers
        /\ \A t \in CountOptions : t >= C11_Containers => s <= t

C11_GridComposition ==
    initPhase = "ready" =>
        IF C11_Available = 0
        THEN /\ grid.message
             /\ DOMAIN grid.cells = {}
             /\ \A k \in ActiveLoads(loads) : loads[k].cont > 0
        ELSE /\ ~grid.message
             /\ DOMAIN grid.cells = 0..(C11_Cells - 1)
             /\ \A i \in DOMAIN grid.cells : IsContainer(grid, i) <=> i < C11_Containers

\* twelve cells for nine cameras: nine containers, then three placeholders
C11_NineOfTwelve ==
    /\ initPhase = "ready"
    /\ C11_Available = 9
    /\ config.cameraCount = 16
    /\ DOMAIN grid.cells = 0..11
    /\ grid.cells[8] = "image"
    /\ grid.cells[9] = "placeholder"

\* the message after a reload that returned no camera
C11_NoCameras ==
    /\ initPhase = "ready"
    /\ C11_Available = 0
    /\ grid.message
    /\ ActiveLoads(loads) # {}

----------------------------------------------------------------------------
(* C12: every camera container that renderCameras created eventually       *)
(* leaves its "Loading..." state, showing an image or an error, unless the *)
(* grid is rendered again for another camera count first; locked slots     *)
(* that had an image before the render included.                           *)
C12_Loading(i) == i \in DOMAIN grid.cells /\ grid.cells[i] = "loading"

C12_EveryContainerLeavesLoading ==
    \A c \in {2, 4} : \A i \in 0..3 :
        (config.cameraCount = c /\ C12_Loading(i))
            ~> (config.cameraCount # c \/ ~C12_Loading(i))

----------------------------------------------------------------------------
(* C13: when no image load is pending any more (all of them succeeded),    *)
(* each unlocked slot i below min(cameraCount, n) records in currentImages *)
(* the camera at position (currentCycleIndex + i) mod n of the filtered    *)
(* list, however the loads of overlapping loadCameraImages calls were      *)
(* interleaved.                                                            *)
C13_SlotsMatchCycleIndex ==
    LET filtered == getFilteredCameras(cameras, config)
    IN  (initPhase = "ready" /\ ActiveLoads(loads) = {} /\ filtered # <<>>) =>
            \A i \in 0..(Min(config.cameraCount, Len(filtered)) - 1) :
                i \notin lockedCameras =>
                    currentImages[i] = CameraAt(filtered, currentCycleIndex, i)

----------------------------------------------------------------------------
(* C14: at most one cycling timer is active; config.cycling is true        *)
(* exactly when this.cyclingInterval holds a timer, which is then the      *)
(* active one; after stopCycling no timer is active.                       *)
C14_ActiveTimers == {id \in TimerIds : timers[id] # 0}

C14_SingleCyclingTimer ==
    /\ Cardinality(C14_ActiveTimers) <= 1
    /\ config.cycling <=> cyclingInterval # 0
    /\ IF cyclingInterval # 0
       THEN C14_ActiveTimers = {cyclingInterval}
       ELSE C14_ActiveTimers = {}

\* cycling runs at an interval other than the default one
C14_RunningAtEightSeconds ==
    /\ config.cycling
    /\ cyclingInterval # 0
    /\ timers[cyclingInterval] = 8000

----------------------------------------------------------------------------
(* C15: a change of the interval select stores the new value in            *)
(* config.cyclingInterval; while cycling runs, the only active timer       *)
(* afterwards is this.cyclingInterval and it fires with the new value;     *)
(* while cycling is stopped, no timer is started; currentCycleIndex and    *)
(* lockedCameras stay as they were.                                        *)
C15_IntervalChanged ==
    /\ intervalSelect'.value # intervalSelect.value
    /\ config'.cameraCount = config.cameraCount

C15_IntervalChangeRestartsCycling ==
    [][C15_IntervalChanged =>
          /\ config'.cyclingInterval = intervalSelect'.value
          /\ config'.cycling = config.cycling
          /\ IF config.cycling
             THEN /\ cyclingInterval' # 0
                  /\ {id \in TimerIds : timers'[id] # 0} = {cyclingInterval'}
                  /\ timers'[cyclingInterval'] = intervalSelect'.value
             ELSE /\ cyclingInterval' = 0
                  /\ {id \in TimerIds : timers'[id] # 0} = {}
          /\ currentCycleIndex' = currentCycleIndex
          /\ lockedCameras' = lockedCameras]_vars

\* cycling at ten seconds, past the first page, with a locked slot
C15_RunningAtTenSeconds ==
    /\ config.cycling
    /\ cyclingInterval # 0
    /\ timers[cyclingInterval] = 10000
    /\ currentCycleIndex # 0
    /\ lockedCameras # {}

----------------------------------------------------------------------------
(* C16: cameras are processed only once the municipality data is loaded;   *)
(* the listeners and the update, reload and image-refresh timers exist     *)
(* only once both loads have succeeded; when Turf is missing or a load has *)
(* failed, none of them exists, nothing is displayed, no listener has      *)
(* acted and the status is an error.                                       *)
C16_NothingStarted ==
    /\ periodic = {}
    /\ C14_ActiveTimers = {}
    /\ fetching = 0
    /\ refreshCalls = 0
    /\ config = DefaultConfig
    /\ lockedCameras = {}

C16_NothingDisplayed ==
    /\ grid = NoGrid
    /\ ActiveLoads(loads) = {}
    /\ \A i \in Slots : currentImages[i] = NoCamera
    /\ allCameras = <<>>
    /\ cameras = <<>>

C16_InitialisationOrder ==
    /\ initPhase \in {"muni", "cams", "failed"} =>
          C16_NothingStarted /\ C16_NothingDisplayed
    /\ initPhase = "cams" => municipalityData.loaded
    /\ initPhase = "failed" => status = "error"
    /\ initPhase = "ready" =>
          /\ municipalityData.loaded
          /\ lastFullUpdate # -1
          /\ periodic = {"update", "reload", "refresh"}

\* the camera load failed after the municipality data had loaded
C16_CamerasFailed ==
    /\ initPhase = "failed"
    /\ municipalityData.loaded

====
